---------------------------- MODULE Spec2Model ----------------------------
(***************************************************************************)
(* A model of the Confluence-to-JSON converter:                            *)
(*   confluence_converter/utils.py       text utilities, chunk grouping    *)
(*   confluence_converter/conversion.py  sections, tables, assembly        *)
(*   confluence_converter/api.py         descendant traversal              *)
(*   converter.py                        the batch run (main)              *)
(*                                                                         *)
(* Text.  A Python str is modelled as a sequence of tokens.  A token is a  *)
(* TLA+ string standing for a fixed run of characters: a whitespace        *)
(* character, a punctuation character, or a word.  A word token has a      *)
(* length in characters (TokLen), so that a 2599-character sentence is one *)
(* token of length 2599 and the chunker's arithmetic is the code's         *)
(* arithmetic on the real thresholds.                                      *)
(***************************************************************************)
EXTENDS Integers, Sequences, FiniteSets, TLC

VARIABLES
    sentences,      \* chunk_sentences: the argument `sentences`
    chunks,         \* chunk_sentences: the returned list `chunks`
    cs_pc,          \* "idle" | "call" | "done"
    page,           \* the page record given to convert_page / build_document
    soup,           \* the sanitized HTML tree (_clean_html's result)
    markdown,       \* the Markdown string
    sections,       \* the list of Section objects
    table_mapping,  \* section id -> list of extracted tables
    results,        \* what each call returned: doc, chunks, chunk_index
    clock,          \* the wall clock read by datetime.now
    cv_pc,          \* "idle" | "call" | "done"
    table,          \* the <table> element given to _extract_table
    table_data,     \* what _extract_table returned
    tb_pc,          \* "idle" | "call" | "done"
    m_pc,           \* main: "idle" | "start" | "traverse" | "fetch" | "done" | "crashed"
    runs,           \* how many times main has been started
    include_children, \* settings["include_children"] of this run
    child_links,    \* the server: page id -> its paged child listing
    http_errors,    \* HTTP error responses the server gave in this run
    queue,          \* traverse_descendants: queue
    seen,           \* traverse_descendants: seen
    page_ids,       \* main: the ids yielded so far, list(traverse_descendants)
    listing_requests, \* GET .../child/page requests sent in this run
    page_idx,       \* main: position of the loop `for page_id in page_ids`
    fetched,        \* page ids whose fetch_page succeeded in this run
    all_chunks,     \* main: all_chunks
    chunk_index,    \* main: chunk_index
    processed_docs, \* main: processed_docs
    previous_index, \* main: previous_index
    docs_dir,       \* out/docs: slug -> document written
    chunks_file,    \* out/chunks/chunks.jsonl: <<>> if absent, else <<chunk list>>
    state_file,     \* out/state/emb_index.json: <<>> if absent, else <<index>>
    report          \* the counts of the final log line, <<>> before it

chunkVars == <<sentences, chunks, cs_pc>>
convVars  == <<page, soup, markdown, sections, table_mapping, results, clock, cv_pc>>
tableVars == <<table, table_data, tb_pc>>
mainVars  == <<m_pc, runs, include_children, child_links, http_errors, queue, seen,
               page_ids, listing_requests, page_idx, fetched, all_chunks,
               chunk_index, processed_docs, previous_index, docs_dir,
               chunks_file, state_file, report>>

vars == <<sentences, chunks, cs_pc,
          page, soup, markdown, sections, table_mapping, results, clock, cv_pc,
          table, table_data, tb_pc,
          m_pc, runs, include_children, child_links, http_errors, queue, seen,
          page_ids, listing_requests, page_idx, fetched, all_chunks,
          chunk_index, processed_docs, previous_index, docs_dir,
          chunks_file, state_file, report>>

-----------------------------------------------------------------------------
(* Bounds of the model.                                                    *)

MaxSents == 3
MaxLines == 4
MaxSections == 3
MaxRows == 3
MaxNodes == 3
MaxClock == 1
MaxRuns == 2
MaxFailures == 2

-----------------------------------------------------------------------------
(* Tokens and strings.                                                     *)

NL == "\n"
SP == " "

IsSpace(t) == t \in {SP, NL}

Punct == {",", ";", "-", "|", "#"}

\* len() of the characters a token stands for.
TokLen(t) ==
    CASE IsSpace(t) \/ t \in Punct \/ t \in {"0", "1", "2", "3", "4", "5", "b"} -> 1
      [] t \in {"A.", "1."} -> 2
      [] t = "L1000."    -> 1000
      [] t = "L1998."    -> 1998
      [] t = "L1999."    -> 1999
      [] t = "L2598."    -> 2598
      [] t = "L2599."    -> 2599
      [] t = "L3601."    -> 3601
      [] t \in {"red"}   -> 3
      [] t \in {"blue", "Name", "Tags"} -> 4
      [] t \in {"Widget", "Column"} -> 6
      [] t \in {"Section"} -> 7
      [] t \in {"Overview", "Untitled"} -> 8
      [] OTHER           -> 5

\* The token ends in one of . ! ?
EndsPunct(t) == t \in {"A.", "1.", "L1000.", "L1998.", "L1999.", "L2598.", "L2599.", "L3601."}

\* The token starts with a character of [A-Z0-9]
StartsCap(t) == ~IsSpace(t) /\ t \notin Punct /\ t \notin {"b", "setup", "red", "blue"}

\* What slugify makes of the token: lower-cased alphanumerics, "" for a
\* token of separators only.
SlugWord(t) ==
    CASE IsSpace(t) \/ t \in Punct -> ""
      [] t = "A."       -> "a"
      [] t = "1."       -> "1"
      [] t = "L1000."   -> "l1000"
      [] t = "L1998."   -> "l1998"
      [] t = "L1999."   -> "l1999"
      [] t = "L2598."   -> "l2598"
      [] t = "L2599."   -> "l2599"
      [] t = "L3601."   -> "l3601"
      [] t = "Setup"    -> "setup"
      [] t = "Notes"    -> "notes"
      [] t = "Deep"     -> "deep"
      [] t = "Overview" -> "overview"
      [] t = "Untitled" -> "untitled"
      [] t = "Section"  -> "section"
      [] t = "Column"   -> "column"
      [] t = "Name"     -> "name"
      [] t = "Tags"     -> "tags"
      [] t = "Widget"   -> "widget"
      [] t = "Page"     -> "page"
      [] t = "Guide"    -> "guide"
      [] OTHER          -> t

\* len(s), summed by halves
RECURSIVE StrLen(_)
StrLen(s) ==
    IF s = <<>> THEN 0
    ELSE IF Len(s) = 1 THEN TokLen(s[1])
    ELSE LET m == Len(s) \div 2
         IN  StrLen(SubSeq(s, 1, m)) + StrLen(SubSeq(s, m + 1, Len(s)))

\* The positions of s that hold the token sep, in increasing order.
sep_positions(s, sep) ==
    LET Hit(k) == s[k] = sep IN SelectSeq([k \in 1..Len(s) |-> k], Hit)

\* The positions of s that hold no whitespace, in increasing order.
text_positions(s) ==
    LET Hit(k) == ~IsSpace(s[k]) IN SelectSeq([k \in 1..Len(s) |-> k], Hit)

\* sep.join(parts)
RECURSIVE Join(_, _)
Join(parts, sep) ==
    IF parts = <<>> THEN <<>>
    ELSE IF Len(parts) = 1 THEN parts[1]
    ELSE parts[1] \o <<sep>> \o Join(Tail(parts), sep)

\* str.lstrip()
LStrip(s) ==
    LET at == text_positions(s)
    IN  IF at = <<>> THEN <<>> ELSE SubSeq(s, at[1], Len(s))

\* str.rstrip()
RStrip(s) ==
    LET at == text_positions(s)
    IN  IF at = <<>> THEN <<>> ELSE SubSeq(s, 1, at[Len(at)])

\* str.strip()
Strip(s) == RStrip(LStrip(s))

\* str.split(sep) for a one-character separator: the pieces between the
\* occurrences of sep, empty pieces included.
Split(s, sep) ==
    LET at == sep_positions(s, sep)
    IN  [i \in 1..(Len(at) + 1) |->
            SubSeq(s, IF i = 1 THEN 1 ELSE at[i - 1] + 1,
                      IF i = Len(at) + 1 THEN Len(s) ELSE at[i] - 1)]

\* str.splitlines(): as split on the newline, without the empty piece after
\* a final newline; the empty string has no line.
SplitLines(s) ==
    LET pieces == Split(s, NL)
    IN  IF pieces[Len(pieces)] = <<>> THEN SubSeq(pieces, 1, Len(pieces) - 1) ELSE pieces

\* sep.join over TLA+ strings
RECURSIVE JoinStr(_, _)
JoinStr(parts, sep) ==
    IF parts = <<>> THEN ""
    ELSE IF Len(parts) = 1 THEN parts[1]
    ELSE parts[1] \o sep \o JoinStr(Tail(parts), sep)

-----------------------------------------------------------------------------
(* utils.slugify_text, slugify_path, sha256_text, split_into_sentences     *)

\* slugify(value, separator): the lower-cased alphanumeric words of value
\* joined by the separator.  Word tokens of a string are always separated by
\* whitespace or punctuation tokens.
slugify(value, separator) ==
    LET words == [k \in 1..Len(value) |-> SlugWord(value[k])]
        IsWord(w) == w # ""
    IN  JoinStr(SelectSeq(words, IsWord), separator)

slugify_text(value) == slugify(IF value = <<>> THEN <<"unnamed">> ELSE value, "-")

\* The slugs of the non-empty parts; slugify_path joins them with "/".
slug_parts(parts) ==
    LET NonEmpty(part) == part # <<>>
        kept == SelectSeq(parts, NonEmpty)
    IN  [k \in 1..Len(kept) |-> slugify_text(kept[k])]

slugify_path(parts) == JoinStr(slug_parts(parts), "/")

\* The digest is compared for equality only; distinct texts have distinct
\* digests.
sha256_text(value) == <<"sha256">> \o value

\* _sentence_splitter.split(line): cut at every whitespace run that follows
\* a token ending in . ! ? and precedes a token starting with [A-Z0-9].
RECURSIVE sentence_split(_, _, _)
sentence_split(line, done, piece) ==
    IF line = <<>> THEN Append(done, piece)
    ELSE IF /\ IsSpace(Head(line))
            /\ piece # <<>> /\ EndsPunct(piece[Len(piece)])
            /\ LStrip(line) # <<>> /\ StartsCap(Head(LStrip(line)))
         THEN sentence_split(LStrip(line), Append(done, piece), <<>>)
         ELSE sentence_split(Tail(line), done, Append(piece, Head(line)))

\* utils.py:42  a bullet or numbered-list line
is_list_line(line) == Head(line) \in {"-", "*", "+", ">", "1."}

RECURSIVE split_lines_loop(_, _)
split_lines_loop(raw_lines, lines) ==
    IF raw_lines = <<>> THEN lines
    ELSE LET line == Strip(Head(raw_lines))
             NonEmpty(seg) == seg # <<>>
             segs == sentence_split(line, <<>>, <<>>)
             sents == SelectSeq([k \in 1..Len(segs) |-> Strip(segs[k])], NonEmpty)
         IN  IF line = <<>> THEN split_lines_loop(Tail(raw_lines), lines)
             ELSE IF is_list_line(line)
                  THEN split_lines_loop(Tail(raw_lines), Append(lines, line))
             ELSE IF sents # <<>>
                  THEN split_lines_loop(Tail(raw_lines), lines \o sents)
             ELSE split_lines_loop(Tail(raw_lines), Append(lines, line))

split_into_sentences(text) ==
    IF text = <<>> THEN <<>> ELSE split_lines_loop(SplitLines(Strip(text)), <<>>)

-----------------------------------------------------------------------------
(* utils.chunk_sentences                                                   *)

target_chars == 2000
max_chars == 3600

\* A bug the hard cap guards against: the accumulator is never flushed early.
must_flush_first_never(current, current_len, sentence_len) == FALSE

\* utils.py:65  `if current and (current_len + sentence_len + 1 > max_chars)`
must_flush_first(current, current_len, sentence_len) ==
    current # <<>> /\ current_len + sentence_len + 1 > max_chars

\* utils.py:73  `if current_len >= target_chars`
reached_target(current_len) == current_len >= target_chars

\* The loop of chunk_sentences from sentence i on.  `groups` collects the
\* accumulator `current` at each flush; the code appends its joined text.
RECURSIVE chunk_loop(_, _, _, _, _)
chunk_loop(sents, i, groups, current, current_len) ==
    IF i > Len(sents)
    THEN IF current # <<>> THEN Append(groups, current) ELSE groups
    ELSE LET sentence     == sents[i]
             sentence_len == StrLen(sentence)
             early        == must_flush_first(current, current_len, sentence_len)
             groups1      == IF early THEN Append(groups, current) ELSE groups
             current1     == IF early THEN <<>> ELSE current
             len1         == IF early THEN 0 ELSE current_len
             current2     == Append(current1, sentence)
             len2         == len1 + sentence_len + 1
         IN  IF reached_target(len2)
             THEN chunk_loop(sents, i + 1, Append(groups1, current2), <<>>, 0)
             ELSE chunk_loop(sents, i + 1, groups1, current2, len2)

\* The sentences that went into each emitted chunk, in order.
chunk_groups(sents) == chunk_loop(sents, 1, <<>>, <<>>, 0)

\* A bug: only the last sentence of the accumulator is emitted.
chunk_text_last_only(current) == Strip(current[Len(current)])

\* "\n".join(current).strip()
chunk_text(current) == Strip(Join(current, NL))

chunk_sentences(sents) ==
    LET g == chunk_groups(sents) IN [k \in 1..Len(g) |-> chunk_text(g[k])]

-----------------------------------------------------------------------------
(* conversion._split_sections                                              *)

None == "<None>"

Overview == <<"Overview">>
UntitledSection == <<"Untitled", SP, "Section">>

\* Section(id, title, body_md, anchors); table_json starts as None, which
\* the code only ever tests for truth: None and the empty list are both <<>>.
Section(id, title, body_md, anchors) ==
    [id |-> id, title |-> title, body_md |-> body_md, anchors |-> anchors,
     table_json |-> <<>>]

\* conversion.py:74-84
flush_section(secs, title, lines) ==
    LET body == Strip(Join(lines, NL))
        slug == slugify_text(title)
    IN  Append(secs, Section(slug,
                             IF Strip(title) # <<>> THEN Strip(title) ELSE UntitledSection,
                             body, <<slug>>))

\* The number of "#" the line starts with.
RECURSIVE leading_hashes(_)
leading_hashes(line) ==
    IF line # <<>> /\ Head(line) = "#" THEN 1 + leading_hashes(Tail(line)) ELSE 0

\* heading_pattern.match(line), for ^(#{1,3})\s+(.*)
heading_match(line) ==
    LET h == leading_hashes(line)
    IN  h \in 1..3 /\ Len(line) > h /\ IsSpace(line[h + 1])

\* match.group(2).strip()
heading_text(line) ==
    Strip(SubSeq(line, leading_hashes(line) + 1, Len(line)))

\* conversion.py:90  `if current_lines:` before a heading starts a section
flush_before_heading(current_lines) == current_lines # <<>>

RECURSIVE split_loop(_, _, _, _)
split_loop(lines, secs, current_title, current_lines) ==
    IF lines = <<>> THEN flush_section(secs, current_title, current_lines)
    ELSE LET line == Head(lines)
         IN  IF heading_match(line)
             THEN LET secs1 == IF flush_before_heading(current_lines)
                               THEN flush_section(secs, current_title, current_lines)
                               ELSE secs
                      heading == heading_text(line)
                  IN  split_loop(Tail(lines), secs1,
                                 IF heading # <<>> THEN heading ELSE UntitledSection,
                                 <<>>)
             ELSE split_loop(Tail(lines), secs, current_title, Append(current_lines, line))

_split_sections(md) ==
    IF Strip(md) = <<>>
    THEN << Section("overview", Overview, <<>>, <<"overview">>) >>
    ELSE split_loop(SplitLines(md), <<>>, Overview, <<>>)

-----------------------------------------------------------------------------
(* conversion._extract_table, _maybe_split_list                            *)
(*                                                                         *)
(* A <table> element is its sequence of <tr> rows; a row is its sequence   *)
(* of cells; a cell is [tag |-> "th" | "td", text |-> its text].           *)

Table(rows) == [tag |-> "table", text |-> <<>>, rows |-> rows]

\* cell.get_text(" ", strip=True) of a cell holding one text node
get_text(node) == Strip(node.text)

\* [part.strip() for part in value.split(sep) if part.strip()]
split_parts(value, sep) ==
    LET pieces == Split(value, sep)
        NonEmpty(part) == part # <<>>
    IN  SelectSeq([k \in 1..Len(pieces) |-> Strip(pieces[k])], NonEmpty)

Contains(value, ch) == \E k \in 1..Len(value) : value[k] = ch

\* A cell value is a str or a list of str.
StrValue(value) == [str |-> value]
ListValue(parts) == [list |-> parts]

_maybe_split_list(value) ==
    IF Contains(value, ";") /\ Len(split_parts(value, ";")) > 1
    THEN ListValue(split_parts(value, ";"))
    ELSE IF Contains(value, ",") /\ Len(split_parts(value, ",")) > 1
    THEN ListValue(split_parts(value, ","))
    ELSE StrValue(value)

\* f"Column {len(headers)+1}"
fallback_name(headers) == <<"Column", SP, ToString(Len(headers) + 1)>>

\* table.find_all("th"): the th cells of all rows, in document order
RECURSIVE th_cells(_)
th_cells(rows) ==
    IF rows = <<>> THEN <<>>
    ELSE LET IsTh(cell) == cell.tag = "th"
         IN  SelectSeq(Head(rows), IsTh) \o th_cells(Tail(rows))

\* first_row.find_all("td")
td_cells(row) == LET IsTd(cell) == cell.tag = "td" IN SelectSeq(row, IsTd)

\* conversion.py:107-113  the header cells, and whether the first row is
\* taken out of the tree for them
use_first_row(rows) ==
    th_cells(rows) = <<>> /\ rows # <<>> /\ td_cells(rows[1]) # <<>>

header_cells_of(rows) ==
    IF th_cells(rows) # <<>> THEN th_cells(rows)
    ELSE IF rows # <<>> THEN td_cells(rows[1])
    ELSE <<>>

\* The rows left in the tree after first_row.extract()
rows_after_extract(rows) == IF use_first_row(rows) THEN Tail(rows) ELSE rows

\* conversion.py:115-118
RECURSIVE header_loop(_, _)
header_loop(cells, hd) ==
    IF cells = <<>> THEN hd
    ELSE LET text == IF get_text(Head(cells)) # <<>> THEN get_text(Head(cells))
                     ELSE fallback_name(hd.headers)
         IN  header_loop(Tail(cells),
                         [headers |-> Append(hd.headers, slugify_text(text)),
                          display_headers |-> Append(hd.display_headers, text)])

\* conversion.py:126-129  `while idx >= len(headers)`, idx counted from 0
RECURSIVE grow_headers(_, _)
grow_headers(hd, idx) ==
    IF idx >= Len(hd.headers)
    THEN grow_headers([headers |-> Append(hd.headers, slugify_text(fallback_name(hd.headers))),
                       display_headers |-> Append(hd.display_headers, fallback_name(hd.headers))],
                      idx)
    ELSE hd

\* conversion.py:125-133  the cells of one row, from cell k on (k from 1)
RECURSIVE cell_loop(_, _, _, _)
cell_loop(cells, k, hd, row_data) ==
    IF k > Len(cells) THEN [hd |-> hd, row_data |-> row_data]
    ELSE LET hd1   == grow_headers(hd, k - 1)
             key   == hd1.headers[k]
             value == _maybe_split_list(get_text(cells[k]))
         IN  cell_loop(cells, k + 1, hd1,
                       [c \in DOMAIN row_data \cup {key} |->
                           IF c = key THEN value ELSE row_data[c]])

\* conversion.py:120-135  the loop over table.find_all("tr")
RECURSIVE row_loop(_, _, _)
row_loop(rows, hd, body_rows) ==
    IF rows = <<>> THEN [hd |-> hd, body_rows |-> body_rows]
    ELSE LET cells == Head(rows)
             done  == cell_loop(cells, 1, hd, [c \in {} |-> StrValue(<<>>)])
         IN  IF cells = <<>> THEN row_loop(Tail(rows), hd, body_rows)
             ELSE row_loop(Tail(rows), done.hd,
                           IF DOMAIN done.row_data # {}
                           THEN Append(body_rows, done.row_data) ELSE body_rows)

\* _extract_table(table): the dictionary it returns
_extract_table(tbl) ==
    LET hd0 == header_loop(header_cells_of(tbl.rows),
                           [headers |-> <<>>, display_headers |-> <<>>])
        out == row_loop(rows_after_extract(tbl.rows), hd0, <<>>)
    IN  [columns |-> out.hd.headers,
         display_columns |-> out.hd.display_headers,
         rows |-> out.body_rows]

\* The <table> element after _extract_table ran on it.
table_after_extract(tbl) == [tbl EXCEPT !.rows = rows_after_extract(tbl.rows)]

-----------------------------------------------------------------------------
(* conversion._clean_html, _html_to_markdown, _map_tables_to_sections      *)
(*                                                                         *)
(* The HTML body is a sequence of elements [tag, text, rows]: headings,    *)
(* paragraphs, tables, script/style, macro elements (a ":" in the tag      *)
(* name), span/div wrappers around one text node, and bare text ("#text"). *)

Node(tag, text) == [tag |-> tag, text |-> text, rows |-> <<>>]

HEADING_TAGS == {"h1", "h2", "h3"}

is_macro(tag) == tag \in {"ac:structured-macro", "ac:parameter"}

\* conversion.py:28-45
RECURSIVE _clean_html(_)
_clean_html(html) ==
    IF html = <<>> THEN <<>>
    ELSE LET node == Head(html)
             rest == _clean_html(Tail(html))
         IN  IF node.tag \in {"script", "style"} THEN rest
             ELSE IF is_macro(node.tag)
                  THEN IF get_text(node) # <<>>
                       THEN <<Node("#text", get_text(node))>> \o rest
                       ELSE rest
             ELSE IF node.tag \in {"span", "div"}
                  THEN <<Node("#text", node.text)>> \o rest
             ELSE <<node>> \o rest

\* The level of a heading tag h1..h6, 0 for any other tag.
heading_level(tag) ==
    CASE tag = "h1" -> 1 [] tag = "h2" -> 2 [] tag = "h3" -> 3
      [] tag = "h4" -> 4 [] tag = "h5" -> 5 [] tag = "h6" -> 6 [] OTHER -> 0

\* One table row as a Markdown line: | cell | cell |
RECURSIVE md_row(_)
md_row(cells) ==
    IF cells = <<>> THEN <<"|">>
    ELSE <<"|", SP>> \o Strip(Head(cells).text) \o <<SP>> \o md_row(Tail(cells))

\* The rule under the first row: | --- | --- |
md_rule(cells) == md_row([k \in 1..Len(cells) |-> [tag |-> "td", text |-> <<"-">>]])

\* markdownify of one element, heading_style="ATX": the block's text, ""
\* for an element that renders to nothing.
md_block(node) ==
    IF heading_level(node.tag) > 0
    THEN IF Strip(node.text) = <<>> THEN <<>>
         ELSE [k \in 1..heading_level(node.tag) |-> "#"] \o <<SP>> \o Strip(node.text)
    ELSE IF node.tag = "table"
    THEN LET WithCells(row) == row # <<>>
             rows == SelectSeq(node.rows, WithCells)
         IN  IF rows = <<>> THEN <<>>
             ELSE Join(<<md_row(rows[1]), md_rule(rows[1])>>
                       \o [k \in 1..(Len(rows) - 1) |-> md_row(rows[k + 1])], NL)
    ELSE Strip(node.text)

\* re.sub(r"\n{3,}", "\n\n", markdown)
collapse_newlines(s) ==
    LET Third(k) == k > 2 /\ s[k] = NL /\ s[k - 1] = NL /\ s[k - 2] = NL
        Kept(k) == ~Third(k)
        at == SelectSeq([k \in 1..Len(s) |-> k], Kept)
    IN  [i \in 1..Len(at) |-> s[at[i]]]

\* conversion.py:48-56: the blocks of the tree, a blank line between them,
\* newline runs collapsed, the whole stripped.
RECURSIVE md_blocks(_)
md_blocks(tree) ==
    IF tree = <<>> THEN <<>>
    ELSE <<NL, NL>> \o md_block(Head(tree)) \o <<NL, NL>> \o md_blocks(Tail(tree))

_html_to_markdown(tree) == Strip(collapse_newlines(md_blocks(tree)))

\* table.find_previous(HEADING_TAGS): the index of the nearest h1-h3 before
\* element k, 0 when there is none.
find_previous_heading(tree, k) ==
    LET before == {j \in 1..(k - 1) : tree[j].tag \in HEADING_TAGS}
    IN  IF before = {} THEN 0 ELSE CHOOSE j \in before : \A i \in before : i <= j

\* conversion.py:161-165
section_id_for(tree, k) ==
    LET h == find_previous_heading(tree, k)
    IN  IF h # 0 /\ get_text(tree[h]) # <<>>
        THEN slugify_text(get_text(tree[h]))
        ELSE "overview"

\* mapping.setdefault(section_id, []).append(table_data)
setdefault_append(mapping, key, item) ==
    [k \in DOMAIN mapping \cup {key} |->
        IF k = key
        THEN (IF key \in DOMAIN mapping THEN Append(mapping[key], item) ELSE <<item>>)
        ELSE mapping[k]]

\* conversion.py:158-168: the loop over soup.find_all("table"), from
\* element k on.  _extract_table may take the first row out of the tree; no
\* heading is moved by that.
RECURSIVE map_tables_loop(_, _, _)
map_tables_loop(tree, k, mapping) ==
    IF k > Len(tree) THEN mapping
    ELSE IF tree[k].tag = "table"
         THEN map_tables_loop(tree, k + 1,
                  setdefault_append(mapping, section_id_for(tree, k), _extract_table(tree[k])))
         ELSE map_tables_loop(tree, k + 1, mapping)

_map_tables_to_sections(tree) == map_tables_loop(tree, 1, [k \in {} |-> <<>>])

\* The tree after _map_tables_to_sections ran on it.
soup_after_mapping(tree) ==
    [k \in 1..Len(tree) |->
        IF tree[k].tag = "table" THEN table_after_extract(tree[k]) ELSE tree[k]]

-----------------------------------------------------------------------------
(* conversion.build_document                                               *)

\* str.lower() of a space code
Lower(space) == CASE space = "SUP" -> "sup" [] OTHER -> space

\* page_id[-4:].rjust(4, "0"), page_id a sequence of one-character tokens
last4_of(page_id) ==
    LET tail == IF Len(page_id) > 4 THEN SubSeq(page_id, Len(page_id) - 3, Len(page_id))
                ELSE page_id
        pad  == [k \in 1..(4 - Len(tail)) |-> "0"]
    IN  JoinStr(pad \o tail, "")

\* datetime.now(timezone.utc).isoformat()
isoformat(t) == "2025-01-01T00:00:0" \o ToString(t) \o "+00:00"

\* A bug: the fallback is always taken, version.when is ignored.
Or_always_second(x, y) == y

\* `x or y` for an optional string
Or(x, y) == IF x \in {None, ""} THEN y ELSE x

\* conversion.py:197-200  attach the mapped tables to each section
attach_tables(secs, mapping) ==
    [k \in 1..Len(secs) |->
        IF secs[k].id \in DOMAIN mapping /\ mapping[secs[k].id] # <<>>
        THEN [secs[k] EXCEPT !.table_json = mapping[secs[k].id]]
        ELSE secs[k]]

\* conversion.py:203-212
section_payload(section) ==
    LET payload == [id |-> section.id, title |-> section.title,
                    body_md |-> section.body_md, anchors |-> section.anchors]
    IN  IF section.table_json # <<>>
        THEN [k \in DOMAIN payload \cup {"table_json"} |->
                 IF k = "table_json" THEN section.table_json ELSE payload[k]]
        ELSE payload

\* A bug: the rank counter starts again at 0 in every section.
rank_entering_section_reset(rank) == 0

\* conversion.py:254,281  rank is set once, before the loop over sections
rank_entering_section(rank) == rank

\* f"{doc_id}::{section.id}#{rank}"
chunk_id_of(doc_id, section_id, rank) ==
    doc_id \o "::" \o section_id \o "#" \o ToString(rank)

\* conversion.py:266-281  the chunks of one section, ranked from `rank` on
section_chunks(doc_id, section, keywords, texts, rank) ==
    [k \in 1..Len(texts) |->
        [chunk_id   |-> chunk_id_of(doc_id, section.id, rank + k - 1),
         section_id |-> section.id,
         rank       |-> rank + k - 1,
         text       |-> texts[k],
         keywords   |-> keywords,
         anchors    |-> section.anchors,
         text_hash  |-> sha256_text(texts[k])]]

\* conversion.py:257-281  the loop over sections
RECURSIVE chunk_pass(_, _, _, _, _)
chunk_pass(doc_id, doc_keywords, secs, rank, acc) ==
    IF secs = <<>> THEN acc
    ELSE LET section  == Head(secs)
             keywords == doc_keywords \cup {slugify_text(section.title), "sandbox", "production"}
             start    == rank_entering_section(rank)
             texts    == chunk_sentences(split_into_sentences(section.body_md))
             new      == section_chunks(doc_id, section, keywords, texts, start)
         IN  IF Strip(section.body_md) = <<>>
             THEN chunk_pass(doc_id, doc_keywords, Tail(secs), rank, acc)
             ELSE chunk_pass(doc_id, doc_keywords, Tail(secs), start + Len(new), acc \o new)

\* chunk_index[chunk_id] = text_hash, in emission order
RECURSIVE index_of(_, _)
index_of(chunk_list, index) ==
    IF chunk_list = <<>> THEN index
    ELSE LET c == Head(chunk_list)
         IN  index_of(Tail(chunk_list),
                      [k \in DOMAIN index \cup {c.chunk_id} |->
                          IF k = c.chunk_id THEN c.text_hash ELSE index[k]])

EmptyDict == [k \in {} |-> None]

\* The sections after build_document attached their tables (it mutates
\* the Section objects it was given).
build_document_sections(secs, mapping) == attach_tables(secs, mapping)

\* build_document(page, markdown, sections, table_mapping, space=, base_url=)
\* read at wall-clock time `now`: the record of what it returns.
build_document(pg, md, secs, mapping, space, base_url, now) ==
    LET page_id        == pg.id
        title          == pg.title
        version_number == pg.version.number
        version_when   == pg.version.when
        parts          == slug_parts(pg.ancestors \o <<title>>)
        slug           == JoinStr(parts, "/")
        \* slug.replace("/", "-"): a slug part holds no "/"
        doc_id         == space \o "-" \o JoinStr(parts, "-") \o "-" \o last4_of(page_id)
        canonical_url  == IF pg.webui \in {None, ""} THEN None ELSE base_url \o pg.webui
        imported_at    == isoformat(now)
        attached       == attach_tables(secs, mapping)
        doc_keywords   == {slugify_text(title), Lower(space), space}
        chunk_list     == chunk_pass(doc_id, doc_keywords, attached, 0, <<>>)
        doc == [id       |-> doc_id,
                slug     |-> slug,
                title    |-> title,
                version  |-> version_number,
                language |-> "en-GB",
                status   |-> "published",
                tags     |-> <<slugify_text(title), space>>,
                source   |-> [system |-> "Confluence", space |-> space,
                              page_id |-> JoinStr(page_id, ""),
                              canonical_url |-> canonical_url,
                              imported_at |-> imported_at],
                history  |-> << [version |-> version_number,
                                 changed_at |-> Or(version_when, imported_at),
                                 notes |-> "Imported"] >>,
                sections |-> [k \in 1..Len(attached) |-> section_payload(attached[k])],
                chunks   |-> chunk_list,
                related  |-> <<>>]
    IN  [doc |-> doc, chunks |-> chunk_list, chunk_index |-> index_of(chunk_list, EmptyDict)]

-----------------------------------------------------------------------------
(* conversion.convert_page                                                 *)

\* conversion.py:297-304  with every local of convert_page computed
convert_page_locals(pg, tree, md, secs, mapping, space, base_url, now) ==
    [soup          |-> soup_after_mapping(tree),
     markdown      |-> md,
     sections      |-> build_document_sections(secs, mapping),
     table_mapping |-> mapping,
     result        |-> build_document(pg, md, secs, mapping, space, base_url, now)]

\* conversion.py:295-296  sections and table_mapping
convert_page_markdown(pg, tree, md, space, base_url, now) ==
    convert_page_locals(pg, tree, md, _split_sections(md),
                        _map_tables_to_sections(tree), space, base_url, now)

\* conversion.py:294  markdown = _html_to_markdown(soup)
convert_page_soup(pg, tree, space, base_url, now) ==
    convert_page_markdown(pg, tree, _html_to_markdown(tree), space, base_url, now)

\* What convert_page(page, space=, base_url=) computes at wall-clock time
\* `now`: its locals and what it returns.
convert_page(pg, space, base_url, now) ==
    convert_page_soup(pg, _clean_html(pg.body), space, base_url, now)

-----------------------------------------------------------------------------
(* Specification SpecChunk: chunk_sentences applied to bounded inputs.     *)

SentencePool ==
    { <<"A.">>, <<"L1000.">>, <<"L1998.">>, <<"L1999.">>, <<"L2598.">>,
      <<"L2599.">>, <<"L3601.">>, <<SP, "A.", SP>>, <<SP>> }

RECURSIVE SeqsUpTo(_, _)
SeqsUpTo(S, n) ==
    IF n = 0 THEN {<<>>}
    ELSE LET shorter == SeqsUpTo(S, n - 1)
         IN  shorter \cup {Append(q, x) : q \in {r \in shorter : Len(r) = n - 1}, x \in S}

ChunkIdle == sentences = <<>> /\ chunks = <<>> /\ cs_pc = "idle"

ChunkInit ==
    /\ sentences \in SeqsUpTo(SentencePool, MaxSents)
    /\ chunks = <<>>
    /\ cs_pc = "call"

ChunkSentences ==
    /\ cs_pc = "call"
    /\ chunks' = chunk_sentences(sentences)
    /\ cs_pc' = "done"
    /\ UNCHANGED sentences

IdlePage == [id |-> <<>>, title |-> <<>>, version |-> [number |-> "1", when |-> None],
             ancestors |-> <<>>, webui |-> None, body |-> <<>>]

ConvIdle ==
    /\ page = IdlePage /\ soup = <<>> /\ markdown = <<>> /\ sections = <<>>
    /\ table_mapping = EmptyDict /\ results = <<>> /\ clock = 0 /\ cv_pc = "idle"

TableIdle == table = Table(<<>>) /\ table_data = EmptyDict /\ tb_pc = "idle"

\* main has not been started: no locals, no output file.
MainIdle ==
    /\ m_pc = "idle" /\ runs = 0 /\ include_children = FALSE
    /\ child_links = EmptyDict /\ http_errors = 0
    /\ queue = <<>> /\ seen = {} /\ page_ids = <<>>
    /\ listing_requests = 0 /\ page_idx = 0 /\ fetched = {}
    /\ all_chunks = <<>> /\ chunk_index = EmptyDict /\ processed_docs = 0
    /\ previous_index = EmptyDict /\ docs_dir = EmptyDict
    /\ chunks_file = <<>> /\ state_file = <<>> /\ report = <<>>

InitChunk == ChunkInit /\ ConvIdle /\ TableIdle /\ MainIdle
NextChunk == ChunkSentences /\ UNCHANGED <<convVars, tableVars, mainVars>>
SpecChunk == InitChunk /\ [][NextChunk]_vars

-----------------------------------------------------------------------------
(* C2: every emitted chunk made of two or more sentences has text length   *)
(* at most 3600; a chunk longer than 3600 characters consists of exactly   *)
(* one input sentence that is itself longer than 3600.                     *)
C2_ChunkSizeBound ==
    cs_pc = "done" =>
        LET g == chunk_groups(sentences)
        IN  /\ Len(chunks) = Len(g)
            /\ \A k \in 1..Len(chunks) :
                 /\ Len(g[k]) >= 2 => StrLen(chunks[k]) <= max_chars
                 /\ StrLen(chunks[k]) > max_chars =>
                        /\ Len(g[k]) = 1
                        /\ StrLen(g[k][1]) > max_chars

\* Reached: one call emitted a two-sentence chunk that the early flush cut
\* off before a third sentence, and an oversized single-sentence chunk.
C2_Witness ==
    /\ cs_pc = "done"
    /\ sentences = << <<"L1000.">>, <<"L2598.">>, <<"L3601.">> >>
    /\ Len(chunks) = 2
    /\ StrLen(chunks[1]) = 3599
    /\ StrLen(chunks[2]) = 3601

-----------------------------------------------------------------------------
(* Specification SpecBuild: build_document applied to bounded lists of     *)
(* sections, as a caller may pass them.                                    *)

SpaceCode == "SUP"
BaseUrl == "https://wiki.example"

BodyPool ==
    { <<>>, <<SP>>, <<"A.">>, <<"L1999.", SP, "A.">>,
      <<"-", SP, "A.", SP, "A.", NL, "L1998.", SP, "L1998.">> }

SectionPool ==
    { [Section(id, <<"Setup">>, body, <<id>>) EXCEPT !.table_json = tj] :
        id \in {"setup", "setup#1"}, body \in BodyPool, tj \in {<<>>} }

PagePool ==
    { [id |-> pid, title |-> <<"Setup", SP, "Guide">>,
       version |-> [number |-> "3", when |-> w],
       ancestors |-> << <<"Notes">> >>, webui |-> "/x/1", body |-> <<>>] :
        pid \in { <<"4", "2">>, <<"1", "2", "3", "4", "5">> },
        w \in {None, "2024-05-01T10:00:00Z"} }

ATable == [columns |-> <<"name">>, display_columns |-> << <<"Name">> >>, rows |-> <<>>]

MappingPool == { EmptyDict, [k \in {"setup"} |-> <<ATable>>] }

BuildInit ==
    /\ page \in PagePool
    /\ sections \in SeqsUpTo(SectionPool, MaxSections)
    /\ table_mapping \in MappingPool
    /\ soup = <<>> /\ markdown = <<>> /\ results = <<>>
    /\ clock = 0 /\ cv_pc = "call"

BuildDocument ==
    /\ cv_pc = "call"
    /\ \E out \in {build_document(page, markdown, sections, table_mapping,
                                  SpaceCode, BaseUrl, clock)} :
         results' = Append(results, out)
    /\ sections' = build_document_sections(sections, table_mapping)
    /\ cv_pc' = "done"
    /\ UNCHANGED <<page, soup, markdown, table_mapping, clock>>

InitBuild == BuildInit /\ ChunkIdle /\ TableIdle /\ MainIdle
NextBuild == BuildDocument /\ UNCHANGED <<chunkVars, tableVars, mainVars>>
SpecBuild == InitBuild /\ [][NextBuild]_vars

-----------------------------------------------------------------------------
(* C1: the chunks build_document emits carry ranks 0, 1, ..., N-1 in       *)
(* emission order (no gap, repeat or reset between sections, blank         *)
(* sections skipped, sections sharing an id included), so the N chunk ids  *)
(* are pairwise distinct and the chunk-hash index has exactly N entries.   *)
C1_RanksContiguous ==
    \A r \in 1..Len(results) :
        LET cl == results[r].chunks
        IN  /\ \A k \in 1..Len(cl) : cl[k].rank = k - 1
            /\ \A j, k \in 1..Len(cl) : j # k => cl[j].chunk_id # cl[k].chunk_id
            /\ Cardinality(DOMAIN results[r].chunk_index) = Len(cl)
            /\ results[r].doc.chunks = cl

\* Reached: a blank section between two sections that share an id, both of
\* which emitted two chunks.
C1_Witness ==
    /\ Len(results) = 1
    /\ Len(sections) = 3
    /\ sections[1].id = sections[3].id
    /\ Strip(sections[2].body_md) = <<>>
    /\ Len(results[1].chunks) = 4
    /\ results[1].chunks[1].section_id = results[1].chunks[4].section_id

-----------------------------------------------------------------------------
(* Specification SpecTable: _extract_table applied to bounded tables.      *)

Th(text) == [tag |-> "th", text |-> text]
Td(text) == [tag |-> "td", text |-> text]

HeaderTh == << Th(<<"Name">>), Th(<<"Tags">>) >>
HeaderTd == << Td(<<"Name">>), Td(<<"Tags">>) >>
WidgetRow == << Td(<<"Widget">>), Td(<<"red", ",", SP, "blue">>) >>

RowPool ==
    { HeaderTh, HeaderTd, WidgetRow,
      << Td(<<SP, "Widget", SP>>), Td(<<>>), Td(<<"red", ";", "blue", ",", "b">>) >>,
      << Th(<<>>), Td(<<"Widget">>) >>,
      <<>> }

TableInit ==
    /\ table \in {Table(rows) : rows \in SeqsUpTo(RowPool, MaxRows)}
    /\ table_data = EmptyDict
    /\ tb_pc = "call"

ExtractTable ==
    /\ tb_pc = "call"
    /\ table_data' = _extract_table(table)
    /\ table' = table_after_extract(table)
    /\ tb_pc' = "done"

InitTable == TableInit /\ ChunkIdle /\ ConvIdle /\ MainIdle
NextTable == ExtractTable /\ UNCHANGED <<chunkVars, convVars, mainVars>>
SpecTable == InitTable /\ [][NextTable]_vars

-----------------------------------------------------------------------------
\* The table has a header row and then data rows only: the first row has
\* cells, all <th> or all <td>, and every later row has cells, all <td>.
HasHeaderRow(tbl) ==
    /\ tbl.rows # <<>>
    /\ tbl.rows[1] # <<>>
    /\ \/ \A c \in 1..Len(tbl.rows[1]) : tbl.rows[1][c].tag = "th"
       \/ \A c \in 1..Len(tbl.rows[1]) : tbl.rows[1][c].tag = "td"
    /\ \A r \in 2..Len(tbl.rows) :
         /\ tbl.rows[r] # <<>>
         /\ \A c \in 1..Len(tbl.rows[r]) : tbl.rows[r][c].tag = "td"

WidgetTableData ==
    [columns |-> <<"name", "tags">>,
     display_columns |-> << <<"Name">>, <<"Tags">> >>,
     rows |-> << [name |-> StrValue(<<"Widget">>),
                  tags |-> ListValue(<< <<"red">>, <<"blue">> >>)] >>]

(* C3: header rows never appear among the extracted rows: a table with a   *)
(* header row (of <th> cells, or a first row of <td> cells) and k data     *)
(* rows yields exactly k row records; header [Name, Tags] and the data row *)
(* [Widget, "red, blue"] yield columns [name, tags], display columns       *)
(* [Name, Tags] and the one row {name: Widget, tags: [red, blue]}.         *)
C3_HeaderRowsExcluded ==
    [][ (tb_pc = "call" /\ tb_pc' = "done" /\ HasHeaderRow(table)) =>
          /\ Len(table_data'.rows) = Len(table.rows) - 1
          /\ table.rows \in { <<HeaderTh, WidgetRow>>, <<HeaderTd, WidgetRow>> }
                => table_data' = WidgetTableData ]_vars

\* The same statement for tables whose header is a first row of <td> cells.
C3_TdHeaderRowsExcluded ==
    [][ (tb_pc = "call" /\ tb_pc' = "done" /\ HasHeaderRow(table)
           /\ table.rows[1][1].tag = "td") =>
          /\ Len(table_data'.rows) = Len(table.rows) - 1
          /\ table.rows = <<HeaderTd, WidgetRow>> => table_data' = WidgetTableData ]_vars

-----------------------------------------------------------------------------
(* Specification SpecSplit: _split_sections applied to bounded Markdown.   *)

LinePool ==
    { <<"#", SP, "Setup">>, <<"#", "#", SP, "Notes">>, <<"#", "#", "#", SP>>,
      <<"#", "#", "#", "#", SP, "Deep">>, <<"A.">>, <<>> }

SplitInit ==
    /\ markdown \in {Join(lines, NL) : lines \in SeqsUpTo(LinePool, MaxLines)}
    /\ sections = <<>>
    /\ page = IdlePage /\ soup = <<>> /\ table_mapping = EmptyDict
    /\ results = <<>> /\ clock = 0 /\ cv_pc = "call"

SplitSections ==
    /\ cv_pc = "call"
    /\ sections' = _split_sections(markdown)
    /\ cv_pc' = "done"
    /\ UNCHANGED <<page, soup, markdown, table_mapping, results, clock>>

InitSplit == SplitInit /\ ChunkIdle /\ TableIdle /\ MainIdle
NextSplit == SplitSections /\ UNCHANGED <<chunkVars, tableVars, mainVars>>
SpecSplit == InitSplit /\ [][NextSplit]_vars

\* The titles of the heading lines of level 1-3, in document order.
RECURSIVE heading_titles(_)
heading_titles(lines) ==
    IF lines = <<>> THEN <<>>
    ELSE IF heading_match(Head(lines))
         THEN << IF heading_text(Head(lines)) # <<>> THEN heading_text(Head(lines))
                 ELSE UntitledSection >> \o heading_titles(Tail(lines))
         ELSE heading_titles(Tail(lines))

\* The lines before the first heading line.
RECURSIVE lines_before_heading(_)
lines_before_heading(lines) ==
    IF lines = <<>> \/ heading_match(Head(lines)) THEN <<>>
    ELSE <<Head(lines)>> \o lines_before_heading(Tail(lines))

(* C5: _split_sections emits one section for every heading line of level   *)
(* 1-3, in document order, preceded by an Overview section exactly when    *)
(* non-heading text comes before the first heading (either way when only   *)
(* blank lines do); headings of level 4 or deeper start no section.        *)
C5_SectionPerHeading ==
    cv_pc = "done" =>
        LET lines  == SplitLines(markdown)
            titles == [k \in 1..Len(sections) |-> sections[k].title]
            before == lines_before_heading(lines)
            wanted == heading_titles(lines)
        IN  IF before = <<>> /\ lines # <<>> THEN titles = wanted
            ELSE IF Strip(Join(before, NL)) # <<>> THEN titles = <<Overview>> \o wanted
            ELSE titles \in {wanted, <<Overview>> \o wanted}

-----------------------------------------------------------------------------
(* Specification SpecConvert: convert_page called twice on one page record *)
(* while the wall clock advances.                                          *)

NodePool ==
    { Node("h2", <<"Setup">>), Node("h4", <<"Deep">>),
      Node("p", <<"A.">>),
      Node("ac:structured-macro", <<"L1999.", SP, "A.">>),
      Table(<<HeaderTd, WidgetRow>>), Table(<<HeaderTh, WidgetRow>>), Table(<<>>) }

ConvPagePool ==
    { [id |-> <<"1", "2", "3", "4", "5">>, title |-> <<"Setup", SP, "Guide">>,
       version |-> [number |-> "3", when |-> w],
       ancestors |-> << <<"Notes">> >>, webui |-> "/x/1", body |-> body] :
        w \in {None, "2024-05-01T10:00:00Z"}, body \in SeqsUpTo(NodePool, MaxNodes) }

ConvertInit ==
    /\ page \in ConvPagePool
    /\ soup = <<>> /\ markdown = <<>> /\ sections = <<>>
    /\ table_mapping = EmptyDict /\ results = <<>>
    /\ clock = 0 /\ cv_pc = "call"

\* One call of convert_page; datetime.now reads a clock that has not gone
\* back since the call before.
ConvertPage ==
    /\ Len(results) < 2
    /\ \E now \in clock..MaxClock :
         \E out \in {convert_page(page, SpaceCode, BaseUrl, now)} :
             /\ soup' = out.soup
             /\ markdown' = out.markdown
             /\ sections' = out.sections
             /\ table_mapping' = out.table_mapping
             /\ results' = Append(results, out.result)
             /\ clock' = now
    /\ cv_pc' = "done"
    /\ UNCHANGED page

InitConvert == ConvertInit /\ ChunkIdle /\ TableIdle /\ MainIdle
NextConvert == ConvertPage /\ UNCHANGED <<chunkVars, tableVars, mainVars>>
SpecConvert == InitConvert /\ [][NextConvert]_vars

-----------------------------------------------------------------------------
\* The tables of the sanitized tree, as positions in it.
TablesOf(tree) == {k \in 1..Len(tree) : tree[k].tag = "table"}

\* The section payloads of doc that carry the tables mapped to section_id.
SectionsCarrying(doc, section_id) ==
    {i \in 1..Len(doc.sections) :
        /\ doc.sections[i].id = section_id
        /\ "table_json" \in DOMAIN doc.sections[i]}

(* C4: every table found in the sanitized HTML is attached to exactly one  *)
(* section of the resulting document: it is in the table_json of one and   *)
(* only one section payload, never of none and never of two.               *)
C4_TableInExactlyOneSection ==
    \A r \in 1..Len(results) :
        LET tree == _clean_html(page.body)
        IN  \A k \in TablesOf(tree) :
                Cardinality(SectionsCarrying(results[r].doc, section_id_for(tree, k))) = 1

\* A result with the import timestamp taken out of the comparison.
WithoutImportedAt(result) ==
    [result EXCEPT !.doc.source.imported_at = "*"]

\* A result with the import timestamp and the history entry's changed_at
\* taken out of the comparison.
WithoutTimestamps(result) ==
    [result EXCEPT !.doc.source.imported_at = "*", !.doc.history[1].changed_at = "*"]

(* C6 as claimed: two conversions of the same page record at two           *)
(* wall-clock times agree in every field except source.imported_at, also   *)
(* for a page record with no version.when.                                 *)
C6_DeterministicButImportedAt ==
    \A i, j \in 1..Len(results) :
        WithoutImportedAt(results[i]) = WithoutImportedAt(results[j])

(* C6 as amended: two conversions of the same page record at two           *)
(* wall-clock times agree in every field except source.imported_at and,    *)
(* when the page record has no version.when, history[0].changed_at, which  *)
(* then is the import timestamp.                                           *)
C6_DeterministicButTimestamps ==
    \A i, j \in 1..Len(results) :
        /\ page.version.when \notin {None, ""} =>
              /\ WithoutImportedAt(results[i]) = WithoutImportedAt(results[j])
              /\ results[i].doc.history[1].changed_at = page.version.when
        /\ page.version.when \in {None, ""} =>
              /\ WithoutTimestamps(results[i]) = WithoutTimestamps(results[j])
              /\ results[i].doc.history[1].changed_at = results[i].doc.source.imported_at

\* Reached: a page with a version.when, with chunks and an attached table,
\* converted twice at two different times.
C6_Witness ==
    /\ Len(results) = 2
    /\ page.version.when \notin {None, ""}
    /\ results[1].doc.source.imported_at # results[2].doc.source.imported_at
    /\ Len(results[1].chunks) >= 2
    /\ \E i \in 1..Len(results[1].doc.sections) :
          "table_json" \in DOMAIN results[1].doc.sections[i]

\* The sections convert_page hands on, for a given tree: split from its
\* Markdown, with the tables mapped from it attached.
SectionsOf(tree) ==
    build_document_sections(_split_sections(_html_to_markdown(tree)),
                            _map_tables_to_sections(tree))

(* C7: table extraction leaves the sanitized HTML tree unchanged, so the   *)
(* Markdown normalizer run after the table extractor gives the same        *)
(* Markdown, sections and tables as run before it.                         *)
C7_ExtractionLeavesTreeUnchanged ==
    results # <<>> =>
        /\ soup = _clean_html(page.body)
        /\ _html_to_markdown(soup) = markdown
        /\ SectionsOf(soup) = sections
        /\ _map_tables_to_sections(soup) = table_mapping

-----------------------------------------------------------------------------
(* api.ConfluenceClient: fetch_page, fetch_children_ids,                   *)
(* traverse_descendants.  The Confluence server is the environment: it     *)
(* answers a request with a payload or with an HTTP error status, on which *)
(* response.raise_for_status() raises HTTPError.                           *)

P1 == <<"1">>
P2 == <<"2">>
P3 == <<"3">>
P4 == <<"4">>
P5 == <<"5">>
PageIds == {P1, P2, P3, P4, P5}

\* settings["root_page_id"]
root_page_id == P1

\* One page of a child listing: payload["results"] and payload["_links"]["next"]
Payload(items, next) == [results |-> items, next |-> next]

\* A result with an "id", and one without
Child(id) == [id |-> id]
NoId == [title |-> "draft"]

\* The payload the server gives to request number k (start = 50 * (k - 1))
\* of a listing: past the last page, no result and no next link.
response_json(listing, k) ==
    IF k <= Len(listing) THEN listing[k] ELSE Payload(<<>>, None)

\* [str(result["id"]) for result in results if "id" in result]
ids_of(items) ==
    LET HasId(result) == "id" \in DOMAIN result
        kept == SelectSeq(items, HasId)
    IN  [i \in 1..Len(kept) |-> kept[i].id]

\* api.py:44-54  the pagination loop, at request number k; bounded by the
\* length of the listing
RECURSIVE fetch_children_loop(_, _, _)
fetch_children_loop(listing, k, children) ==
    LET payload == response_json(listing, k)
        more    == children \o ids_of(payload.results)
    IN  IF payload.next = None THEN [children |-> more, requests |-> k]
        ELSE fetch_children_loop(listing, k + 1, more)

\* fetch_children_ids(page_id) when every request succeeds: the children and
\* the number of requests sent.
fetch_children_ids(listing) == fetch_children_loop(listing, 1, <<>>)

\* A bug: the oldest queued page is left waiting, the newest is taken.
queue_pop_last(q) ==
    [current |-> q[Len(q)], queue |-> SubSeq(q, 1, Len(q) - 1)]

\* api.py:67  current = queue.pop(0)
queue_pop_0(q) == [current |-> Head(q), queue |-> Tail(q)]

\* api.py:68-73  the loop over the children of one page: what it adds to
\* seen and queue, and what it yields.
RECURSIVE children_loop(_, _, _, _)
children_loop(children, seen_, queue_, yielded) ==
    IF children = <<>> THEN [seen |-> seen_, queue |-> queue_, yielded |-> yielded]
    ELSE LET child_id == Head(children)
         IN  IF child_id \in seen_
             THEN children_loop(Tail(children), seen_, queue_, yielded)
             ELSE children_loop(Tail(children), seen_ \cup {child_id},
                                Append(queue_, child_id), Append(yielded, child_id))

\* The title and body the server holds for a page.
title_of(page_id) ==
    CASE page_id = P1 -> <<"Guide">>
      [] page_id = P2 -> <<"Setup">>
      [] page_id = P3 -> <<"Notes">>
      [] page_id = P4 -> <<"Deep">>
      [] OTHER        -> <<"Page">>

body_of(page_id) ==
    CASE page_id = P1 -> <<Node("h2", <<"Setup">>), Node("p", <<"A.">>)>>
      [] page_id = P2 -> <<Node("p", <<"L1999.", SP, "A.">>)>>
      [] page_id = P3 -> <<Node("p", <<"A.">>)>>
      [] page_id = P4 -> <<>>
      [] OTHER        -> <<Node("p", <<"A.">>)>>

\* fetch_page(page_id) when the request succeeds: response.json(), with the
\* fields convert_page reads.
fetch_page(page_id) ==
    [id |-> page_id, title |-> title_of(page_id),
     version |-> [number |-> "3", when |-> "2024-05-01T10:00:00Z"],
     ancestors |-> IF page_id = root_page_id THEN <<>> ELSE <<title_of(root_page_id)>>,
     webui |-> "/x/1", body |-> body_of(page_id)]

-----------------------------------------------------------------------------
(* converter.main                                                          *)

\* dict.update
dict_update(d, e) ==
    [k \in DOMAIN d \cup DOMAIN e |-> IF k \in DOMAIN e THEN e[k] ELSE d[k]]

\* previous_index.get(cid): None, written <<>>, for an absent key; a hash
\* is never empty
dict_get(d, key) == IF key \in DOMAIN d THEN d[key] ELSE <<>>

\* load_json(path): {} for a file that does not exist
load_json(file) == IF file = <<>> THEN EmptyDict ELSE file[1]

\* write_json / write_jsonl: the file is replaced by the payload
write_json(payload) == <<payload>>

\* A bug: only ids known to the previous index are counted.
changed_chunks_known_only(previous, index) ==
    Cardinality({cid \in DOMAIN index \cap DOMAIN previous : previous[cid] # index[cid]})

\* converter.py:138
changed_chunks(previous, index) ==
    Cardinality({cid \in DOMAIN index : dict_get(previous, cid) # index[cid]})

\* converter.py:139
removed_chunks(previous, index) ==
    Cardinality(DOMAIN previous \ DOMAIN index)

-----------------------------------------------------------------------------
(* Specification SpecMain: batch runs of main against a server whose child *)
(* listings form a graph and whose requests may fail with an HTTP error.   *)

NoChildren == <<Payload(<<>>, None)>>

\* The root has no child page.
LeafGraph == [p \in PageIds |-> NoChildren]

\* The root is listed as its own child.
SelfGraph ==
    [p \in PageIds |->
        IF p = P1 THEN <<Payload(<<Child(P1)>>, None)>> ELSE NoChildren]

\* A listing of two pages with a result without id and a repeated child;
\* page 3 is a child of 1 and of 2; 3 lists the root and 4 lists 2 (cycles).
RichGraph ==
    [p \in PageIds |->
        CASE p = P1 -> <<Payload(<<Child(P2), Child(P3)>>, "/child/page?start=50"),
                         Payload(<<NoId, Child(P2)>>, None)>>
          [] p = P2 -> <<Payload(<<Child(P5), Child(P3)>>, None)>>
          [] p = P3 -> <<Payload(<<Child(P4), Child(P1)>>, None)>>
          [] p = P4 -> <<Payload(<<Child(P2)>>, None)>>
          [] OTHER  -> NoChildren]

GraphPool == {LeafGraph, SelfGraph, RichGraph}

\* The chunk-hash index a run that exports these pages writes.
RECURSIVE IndexOfPages(_)
IndexOfPages(ids) ==
    IF ids = <<>> THEN EmptyDict
    ELSE dict_update(IndexOfPages(Tail(ids)),
                     convert_page(fetch_page(Head(ids)), SpaceCode, BaseUrl, 0).result.chunk_index)

StaleHash == sha256_text(<<"1.">>)

\* The index as it was before every chunk longer than one short sentence
\* was edited.
BeforeEdit(index) ==
    [cid \in DOMAIN index |->
        IF index[cid] = sha256_text(<<"A.">>) THEN index[cid] ELSE StaleHash]

\* An index left by a run over pages that exist no more.
GoneIndex == [cid \in {"SUP-gone-0009::overview#0"} |-> StaleHash]

\* An index with the root's chunks as they are, page 2's chunks under an
\* older text, and a chunk of a page that exists no more.
MixedIndex == dict_update(BeforeEdit(IndexOfPages(<<P1, P2>>)), GoneIndex)

\* out/state/emb_index.json before the first run
StateFilePool == {<<>>, <<GoneIndex>>, <<MixedIndex>>}

MainInit ==
    /\ m_pc = "start" /\ runs = 1
    /\ include_children \in BOOLEAN
    /\ child_links \in GraphPool
    /\ http_errors = 0
    /\ queue = <<>> /\ seen = {} /\ page_ids = <<>>
    /\ listing_requests = 0 /\ page_idx = 1 /\ fetched = {}
    /\ all_chunks = <<>> /\ chunk_index = EmptyDict /\ processed_docs = 0
    /\ previous_index = EmptyDict /\ docs_dir = EmptyDict
    /\ chunks_file = <<>> /\ state_file \in StateFilePool /\ report = <<>>

\* api.py:60-65  the generator yields the root; without include_children it
\* returns, and main goes on to its loop over page_ids.
TraverseRoot ==
    /\ m_pc = "start"
    /\ page_ids' = <<root_page_id>>
    /\ IF include_children
       THEN queue' = <<root_page_id>> /\ seen' = {root_page_id} /\ m_pc' = "traverse"
       ELSE queue' = <<>> /\ seen' = {} /\ m_pc' = "fetch"
    /\ UNCHANGED <<runs, include_children, child_links, http_errors,
                   listing_requests, page_idx, fetched, all_chunks, chunk_index,
                   processed_docs, previous_index, docs_dir, chunks_file,
                   state_file, report>>

\* api.py:66-73  one turn of `while queue`.  An HTTP error on one of the
\* listing requests raises HTTPError out of the generator and out of
\* list(...) at converter.py:94, which no handler encloses.
TraverseStep ==
    /\ m_pc = "traverse" /\ queue # <<>>
    /\ LET popped == queue_pop_0(queue)
           got    == fetch_children_ids(child_links[popped.current])
       IN  \/ \E r \in {children_loop(got.children, seen, popped.queue, <<>>)} :
                 /\ seen' = r.seen
                 /\ queue' = r.queue
                 /\ page_ids' = page_ids \o r.yielded
                 /\ listing_requests' = listing_requests + got.requests
                 /\ UNCHANGED <<m_pc, http_errors>>
           \/ /\ http_errors < MaxFailures
              /\ \E k \in 1..got.requests :
                     listing_requests' = listing_requests + k
              /\ http_errors' = http_errors + 1
              /\ queue' = popped.queue
              /\ m_pc' = "crashed"
              /\ UNCHANGED <<seen, page_ids>>
    /\ UNCHANGED <<runs, include_children, child_links, page_idx, fetched,
                   all_chunks, chunk_index, processed_docs, previous_index,
                   docs_dir, chunks_file, state_file, report>>

\* api.py:66  the queue is empty: the generator is exhausted.
TraverseReturn ==
    /\ m_pc = "traverse" /\ queue = <<>>
    /\ m_pc' = "fetch"
    /\ UNCHANGED <<runs, include_children, child_links, http_errors, queue, seen,
                   page_ids, listing_requests, page_idx, fetched, all_chunks,
                   chunk_index, processed_docs, previous_index, docs_dir,
                   chunks_file, state_file, report>>

\* converter.py:101-127  one turn of `for page_id in page_ids`
FetchPage ==
    /\ m_pc = "fetch" /\ page_idx <= Len(page_ids)
    /\ page_idx' = page_idx + 1
    /\ LET page_id == page_ids[page_idx]
       IN  \/ /\ http_errors < MaxFailures
              /\ http_errors' = http_errors + 1
              /\ UNCHANGED <<fetched, all_chunks, chunk_index, processed_docs, docs_dir>>
           \/ \E out \in {convert_page(fetch_page(page_id), SpaceCode, BaseUrl, clock).result} :
                 /\ docs_dir' = dict_update(docs_dir, [slug \in {out.doc.slug} |-> out.doc])
                 /\ all_chunks' = all_chunks \o out.chunks
                 /\ chunk_index' = dict_update(chunk_index, out.chunk_index)
                 /\ processed_docs' = processed_docs + 1
                 /\ fetched' = fetched \cup {page_id}
                 /\ UNCHANGED http_errors
    /\ UNCHANGED <<m_pc, runs, include_children, child_links, queue, seen, page_ids,
                   listing_requests, previous_index, chunks_file, state_file, report>>

\* converter.py:129-148  after the loop
Finish ==
    /\ m_pc = "fetch" /\ page_idx > Len(page_ids)
    /\ m_pc' = "done"
    /\ IF processed_docs = 0
       THEN UNCHANGED <<previous_index, chunks_file, state_file, report>>
       ELSE /\ chunks_file' = write_json(all_chunks)
            /\ previous_index' = load_json(state_file)
            /\ state_file' = write_json(chunk_index)
            /\ report' = << [total   |-> Len(all_chunks),
                             changed |-> changed_chunks(load_json(state_file), chunk_index),
                             removed |-> removed_chunks(load_json(state_file), chunk_index)] >>
    /\ UNCHANGED <<runs, include_children, child_links, http_errors, queue, seen,
                   page_ids, listing_requests, page_idx, fetched, all_chunks,
                   chunk_index, processed_docs, docs_dir>>

\* main is started again: new locals, the files of the run before.
StartMain ==
    /\ m_pc \in {"done", "crashed"} /\ runs < MaxRuns
    /\ runs' = runs + 1
    /\ m_pc' = "start"
    /\ include_children' \in BOOLEAN
    /\ http_errors' = 0
    /\ queue' = <<>> /\ seen' = {} /\ page_ids' = <<>>
    /\ listing_requests' = 0 /\ page_idx' = 1 /\ fetched' = {}
    /\ all_chunks' = <<>> /\ chunk_index' = EmptyDict /\ processed_docs' = 0
    /\ previous_index' = EmptyDict /\ report' = <<>>
    /\ UNCHANGED <<child_links, docs_dir, chunks_file, state_file>>

\* The steps of list(client.traverse_descendants(...)), converter.py:94
Traversal ==
    (TraverseRoot \/ TraverseStep \/ TraverseReturn)
        /\ UNCHANGED <<chunkVars, convVars, tableVars>>

InitMain == MainInit /\ ChunkIdle /\ ConvIdle /\ TableIdle
NextMain ==
    \/ Traversal
    \/ (FetchPage \/ Finish \/ StartMain) /\ UNCHANGED <<chunkVars, convVars, tableVars>>

\* The generator, once called, keeps running: every request it sends is
\* answered (the session's timeout is 30 seconds), with a payload or with
\* an error.
SpecMain == InitMain /\ [][NextMain]_vars /\ WF_vars(Traversal)

-----------------------------------------------------------------------------
\* The page was exported: a document of it is in out/docs.
Exported(page_id) ==
    \E slug \in DOMAIN docs_dir : docs_dir[slug].source.page_id = JoinStr(page_id, "")

(* C8: in a batch run an HTTP error on any request, a fetch_page call or a *)
(* child-listing request of the traversal, is caught and the batch goes    *)
(* on: the run never ends on an uncaught error, every page whose fetch     *)
(* succeeded is exported, and the chunk file and the index are written.    *)
C8_FetchFailuresCaught ==
    /\ m_pc # "crashed"
    /\ m_pc = "done" =>
          /\ \A page_id \in fetched : Exported(page_id)
          /\ fetched # {} =>
                /\ chunks_file = write_json(all_chunks)
                /\ state_file = write_json(chunk_index)

\* The part of C8 about fetch_page alone: a run that was not ended by a
\* failed child listing exports every fetched page and writes its files.
C8_FetchPageFailuresCaught ==
    m_pc = "done" =>
        /\ processed_docs = Cardinality(fetched)
        /\ \A page_id \in fetched : Exported(page_id)
        /\ fetched # {} =>
              /\ chunks_file = write_json(all_chunks)
              /\ state_file = write_json(chunk_index)

(* C9: when a run writes its report, with P the index in the state file    *)
(* before the run overwrites it and N the index it writes: changed is the  *)
(* number of ids of N absent from P or with a different hash in P, removed *)
(* the number of ids of P absent from N; an id in both with the same hash  *)
(* is in neither count.                                                    *)
C9_IndexDiffCounts ==
    [][ (m_pc = "fetch" /\ m_pc' = "done" /\ report' # <<>>) =>
            LET P == load_json(state_file)
                N == load_json(state_file')
                same == {cid \in DOMAIN N \cap DOMAIN P : P[cid] = N[cid]}
            IN  /\ N = chunk_index
                /\ report'[1].changed =
                     Cardinality({cid \in DOMAIN N : cid \notin DOMAIN P \/ P[cid] # N[cid]})
                /\ report'[1].removed =
                     Cardinality({cid \in DOMAIN P : cid \notin DOMAIN N})
                /\ report'[1].changed + Cardinality(same) = Cardinality(DOMAIN N) ]_vars

\* Reached: a run reported over a previous index holding an unchanged id,
\* an id with another hash and an id that is gone, and a new index with a
\* new id.
C9_Witness ==
    /\ m_pc = "done" /\ report # <<>>
    /\ state_file = write_json(chunk_index)
    /\ \E cid \in DOMAIN previous_index \cap DOMAIN chunk_index :
          previous_index[cid] = chunk_index[cid]
    /\ \E cid \in DOMAIN previous_index \cap DOMAIN chunk_index :
          previous_index[cid] # chunk_index[cid]
    /\ \E cid \in DOMAIN chunk_index : cid \notin DOMAIN previous_index
    /\ \E cid \in DOMAIN previous_index : cid \notin DOMAIN chunk_index
    /\ report[1].changed >= 2 /\ report[1].removed = 1

\* The child links of the server: the ids a page's listing names.
ChildrenOf(page_id) ==
    LET listing == child_links[page_id]
        Named(items) == {items[i].id : i \in {i \in 1..Len(items) : "id" \in DOMAIN items[i]}}
    IN  UNION {Named(listing[k].results) : k \in 1..Len(listing)}

\* The ids reachable from the pages of S through child links.
RECURSIVE ReachableFrom(_)
ReachableFrom(S) ==
    LET T == S \cup UNION {ChildrenOf(p) : p \in S}
    IN  IF T = S THEN S ELSE ReachableFrom(T)

\* The least number of child links from a page of `frontier` to page_id,
\* plus d; -1 if there is no path.
RECURSIVE DepthFrom(_, _, _, _)
DepthFrom(frontier, visited, d, page_id) ==
    IF page_id \in frontier THEN d
    ELSE IF frontier = {} THEN -1
    ELSE DepthFrom((UNION {ChildrenOf(p) : p \in frontier}) \ (visited \cup frontier),
                   visited \cup frontier, d + 1, page_id)

DepthOf(page_id) == DepthFrom({root_page_id}, {}, 0, page_id)

\* The position in page_ids of the first yielded page that lists page_id.
FirstLister(page_id) ==
    CHOOSE i \in 1..Len(page_ids) :
        /\ page_id \in ChildrenOf(page_ids[i])
        /\ \A j \in 1..(i - 1) : page_id \notin ChildrenOf(page_ids[j])

\* What traverse_descendants has yielded is right so far.
TraversalSafe ==
    m_pc \in {"traverse", "fetch", "done"} =>
        /\ page_ids[1] = root_page_id
        /\ \A i, j \in 1..Len(page_ids) : i # j => page_ids[i] # page_ids[j]
        /\ \A i, j \in 2..Len(page_ids) :
              i < j => /\ DepthOf(page_ids[i]) <= DepthOf(page_ids[j])
                       /\ FirstLister(page_ids[i]) <= FirstLister(page_ids[j])
        /\ \A i \in 2..Len(page_ids) : DepthOf(page_ids[i]) >= 1
        /\ include_children =>
              /\ {page_ids[i] : i \in 1..Len(page_ids)} \subseteq ReachableFrom({root_page_id})
              /\ m_pc \in {"fetch", "done"} =>
                    {page_ids[i] : i \in 1..Len(page_ids)} = ReachableFrom({root_page_id})
        /\ ~include_children => page_ids = <<root_page_id>> /\ listing_requests = 0

(* C10: traverse_descendants yields the root first and, with               *)
(* include_children, every id reachable from the root through child links  *)
(* exactly once and in breadth-first order (by depth, and within a depth   *)
(* by the order of the pages that list them), whatever cycles, repeated    *)
(* children or links back to the root the graph has; the traversal always  *)
(* ends; without include_children it yields the root alone and sends no    *)
(* child-listing request.                                                  *)
C10_TraversalBreadthFirst ==
    /\ []TraversalSafe
    /\ (m_pc = "traverse") ~> (m_pc # "traverse")

\* Reached: the traversal of the graph with a two-page listing, a repeated
\* child, a page with two parents and links back to the root and to page 2
\* returned all five pages, page 5 (listed by 2) before page 4 (listed by 3).
C10_Witness ==
    /\ m_pc = "fetch" /\ include_children
    /\ child_links = RichGraph
    /\ page_ids = <<P1, P2, P3, P5, P4>>
    /\ listing_requests = 6
    /\ queue = <<>>

-----------------------------------------------------------------------------
\* The sentence is non-empty and has no whitespace at either end.
Trimmed(sentence) == sentence # <<>> /\ Strip(sentence) = sentence

\* The ways of putting n sentences, in order, into m chunks with none left
\* empty: the chunk of each sentence, never going back, skipping no chunk.
Placements(n, m) ==
    { f \in [1..n -> 1..m] :
        /\ \A i \in 1..(n - 1) : f[i] <= f[i + 1] /\ f[i + 1] <= f[i] + 1
        /\ (n = 0 => m = 0)
        /\ (n > 0 => f[1] = 1 /\ f[n] = m) }

\* The sentences placed in chunk k, in input order.
PlacedIn(sents, f, k) ==
    LET At(i) == f[i] = k
        at == SelectSeq([i \in 1..Len(sents) |-> i], At)
    IN  [j \in 1..Len(at) |-> sents[at[j]]]

(* C11: for non-empty, whitespace-trimmed sentences chunk_sentences loses, *)
(* duplicates, reorders and splits nothing: the sentences can be placed in *)
(* order into the chunks, each in exactly one, so that every chunk is its  *)
(* sentences joined by a newline; the chunks joined by a newline are the   *)
(* sentences joined by a newline; no chunk is empty; no sentence gives no  *)
(* chunk.                                                                  *)
C11_SentencesPreserved ==
    (cs_pc = "done" /\ \A i \in 1..Len(sentences) : Trimmed(sentences[i])) =>
        /\ \E f \in Placements(Len(sentences), Len(chunks)) :
              \A k \in 1..Len(chunks) : chunks[k] = Join(PlacedIn(sentences, f, k), NL)
        /\ Join(chunks, NL) = Join(sentences, NL)
        /\ \A k \in 1..Len(chunks) : chunks[k] # <<>>
        /\ sentences = <<>> => chunks = <<>>

\* Reached: three trimmed sentences went into two chunks, the first two
\* together when they reached the target, the third in the final flush.
C11_Witness ==
    /\ cs_pc = "done"
    /\ sentences = << <<"A.">>, <<"L1998.">>, <<"A.">> >>
    /\ chunks = << <<"A.", NL, "L1998.">>, <<"A.">> >>

=============================================================================
